---------------------------- MODULE Spec2Model ----------------------------
(***************************************************************************)
(* Model of md2confluence-mcp: the converter (src/src/converter.ts), the   *)
(* tool-call handler (src/src/index.ts) and the Confluence client          *)
(* (src/src/confluence.ts).                                                *)
(*                                                                         *)
(* A Markdown document is a sequence of lexical tokens.  Every token is a  *)
(* string holding the token's real text; the document's text is the        *)
(* concatenation of its tokens.  No token text is a prefix of another and  *)
(* fence marks occur only in the FENCE token, so a search for a fenced    *)
(* block over tokens finds what the search over characters finds.         *)
(***************************************************************************)
EXTENDS Naturals, Sequences, FiniteSets, TLC

(* ----------------------------- bounds --------------------------------- *)

\* A document is the concatenation of at most MaxSegs segments.
MaxSegs == 3

\* A document given to removeFrontMatter has at most MaxFrontLines lines.
MaxFrontLines == 6

\* A document given to extractTitle has at most MaxTitleLines lines.
MaxTitleLines == 5

(* ----------------------------- tokens --------------------------------- *)

\* Three backticks (a backtick cannot be written in a TLA+ string).
FENCE == "<fence>"
LANG  == "mermaid\n"
NL    == "\n"
SrcA  == "flowchart LR\nA-->B"
SrcB  == "graph TD\nX-->Y"
TEXT  == "plain text"
\* An image the author wrote by hand; its target has the attachment pattern.
IMG   == "![d](mermaid-0123456789ab.png)"

\* A line of three hyphens, and a front-matter field.
RULE  == "---"
FIELD == "title: My Doc"

WhiteSpace == {" ", "\n", "\t", "\r"}

Null == [index |-> 0]

\* The lines and blocks a document is built from.
Segments ==
  { <<TEXT, NL>>,
    <<IMG, NL>>,
    <<FENCE, NL>>,
    <<FENCE, LANG, SrcA, NL, FENCE, NL>>,
    <<FENCE, LANG, NL, SrcA, NL, FENCE, NL>>,
    <<FENCE, LANG, SrcB, NL, FENCE, NL>> }

RECURSIVE DocsUpTo(_)
DocsUpTo(n) ==
  IF n = 0 THEN { <<>> }
  ELSE LET prev == DocsUpTo(n - 1)
       IN  prev \cup { d \o s : d \in prev, s \in Segments }

Docs == DocsUpTo(MaxSegs)

(* ------------------------- string helpers ----------------------------- *)

Min(S) == CHOOSE x \in S : \A y \in S : x <= y

\* The text of a token sequence.
RECURSIVE Concat(_)
Concat(toks) ==
  IF toks = <<>> THEN "" ELSE Head(toks) \o Concat(Tail(toks))

RECURSIVE TrimLeft(_)
TrimLeft(s) ==
  IF Len(s) > 0 /\ SubSeq(s, 1, 1) \in WhiteSpace
  THEN TrimLeft(SubSeq(s, 2, Len(s)))
  ELSE s

RECURSIVE TrimRight(_)
TrimRight(s) ==
  IF Len(s) > 0 /\ SubSeq(s, Len(s), Len(s)) \in WhiteSpace
  THEN TrimRight(SubSeq(s, 1, Len(s) - 1))
  ELSE s

Trim_None(s) == s

\* String.prototype.trim
Trim(s) == TrimRight(TrimLeft(s))

Max(S) == CHOOSE x \in S : \A y \in S : y <= x

StartsWith(s, p) == Len(s) >= Len(p) /\ SubSeq(s, 1, Len(p)) = p

EndsWith(s, p) ==
  Len(s) >= Len(p) /\ SubSeq(s, Len(s) - Len(p) + 1, Len(s)) = p

(* --------------------------- generateFilename ------------------------- *)

\* createHash("md5").update(content).digest("hex"), tabulated for the texts
\* a fence of the model's documents can enclose, trimmed or not (the values
\* are the real MD5 digests of these texts).
Md5Hex(content) ==
  CASE content = SrcA -> "f55d01def263294d5b0a9332ae371bc5"
    [] content = SrcB -> "5f40aa324076afe868cdf26d1db8ccb6"
    [] content = ""   -> "d41d8cd98f00b204e9800998ecf8427e"
    [] content = SrcA \o NL       -> "f41be751aed7896cd97a22a47954f543"
    [] content = NL \o SrcA \o NL -> "09a1204ca03eee59b4e4684761511e68"
    [] content = SrcB \o NL       -> "d91f05dcd41068d407dec2a22368e41f"
    [] content = TEXT -> "31bc5c2b8fd4f20cd747347b7504a385"
    [] content = IMG  -> "bb66cd258052c9e075ecaa5d38db2873"

\* digest("hex").slice(0, 12)
HashLen == 12

generateFilename(content) ==
  "mermaid-" \o SubSeq(Md5Hex(content), 1, HashLen) \o ".png"

\* The image placeholder: ![mermaid-${filename}](${filename})
Placeholder(filename) == "![mermaid-" \o filename \o "](" \o filename \o ")"

\* Kroki's answer to a successful request: the PNG of the posted source.
Png(code) == "PNG:" \o code

(* ------------------------------ the scan ------------------------------ *)

\* mermaidRegex.exec(str) with the regex's lastIndex at li:
\* a fence tagged mermaid, the shortest inner text, a fence; global flag.
\* Positions count tokens; li tokens are already consumed (lastIndex).
\* The result holds the match's first and last token, match[0] and match[1].
RegexExec_AnyFence(str, li) ==
  LET Closers(i) == { j \in (i + 2)..Len(str) : str[j] = FENCE }
      Starts == { i \in (li + 1)..Len(str) :
                    /\ i + 2 <= Len(str)
                    /\ str[i] = FENCE
                    /\ Closers(i) # {} }
  IN  IF Starts = {} THEN Null
      ELSE LET i == Min(Starts)
               j == Min(Closers(i))
           IN  [index |-> i, last |-> j,
                text  |-> SubSeq(str, i, j),
                inner |-> SubSeq(str, i + 2, j - 1)]

RegexExec_NoGlobal(str, li) ==
  LET Closers(i) == { j \in (i + 2)..Len(str) : str[j] = FENCE }
      Starts == { i \in 1..Len(str) :
                    /\ i + 2 <= Len(str)
                    /\ str[i] = FENCE
                    /\ str[i + 1] = LANG
                    /\ Closers(i) # {} }
  IN  IF Starts = {} THEN Null
      ELSE LET i == Min(Starts)
               j == Min(Closers(i))
           IN  [index |-> i, last |-> j,
                text  |-> SubSeq(str, i, j),
                inner |-> SubSeq(str, i + 2, j - 1)]

RegexExec(str, li) ==
  LET Closers(i) == { j \in (i + 2)..Len(str) : str[j] = FENCE }
      Starts == { i \in (li + 1)..Len(str) :
                    /\ i + 2 <= Len(str)
                    /\ str[i] = FENCE
                    /\ str[i + 1] = LANG
                    /\ Closers(i) # {} }
  IN  IF Starts = {} THEN Null
      ELSE LET i == Min(Starts)
               j == Min(Closers(i))
           IN  [index |-> i, last |-> j,
                text  |-> SubSeq(str, i, j),
                inner |-> SubSeq(str, i + 2, j - 1)]

(* --------------------------- Map and String --------------------------- *)

\* Map.prototype.set on an insertion-ordered map, a sequence of entries:
\* an existing key keeps its place and takes the new value.
MapSet(map, k, v) ==
  IF \E n \in 1..Len(map) : map[n].key = k
  THEN [n \in 1..Len(map) |->
          IF map[n].key = k THEN [key |-> k, value |-> v] ELSE map[n]]
  ELSE Append(map, [key |-> k, value |-> v])

\* String.prototype.indexOf: the first place pat occurs in str, 0 for none.
IndexOf(str, pat) ==
  LET Hits == { p \in 1..(Len(str) - Len(pat) + 1) :
                  SubSeq(str, p, p + Len(pat) - 1) = pat }
  IN  IF Hits = {} THEN 0 ELSE Min(Hits)

\* str.replace(pat, rep) with a string pattern: the first occurrence only.
StringReplace(str, pat, rep) ==
  LET p == IndexOf(str, pat)
  IN  IF p = 0 THEN str
      ELSE SubSeq(str, 1, p - 1) \o <<rep>>
             \o SubSeq(str, p + Len(pat), Len(str))

\* attachments.push(entry)
Push_Front(arr, e) == <<e>> \o arr

Push(arr, e) == Append(arr, e)

(* ----------------------------- renderers ------------------------------ *)
(* The markup is a sequence of chunks; its text is their concatenation.    *)

ImageAttachmentOpen == "<ac:image><ri:attachment ri:filename=\""
ImageUrlOpen        == "<ac:image><ri:url ri:value=\""
ImageClose          == "\"/></ac:image>"

\* renderer.code
rendererCode(code, language) ==
  LET lang == IF language = "" THEN "text" ELSE language
  IN  << "<ac:structured-macro ac:name=\"code\">", "\n      ",
         "<ac:parameter ac:name=\"language\">", lang, "</ac:parameter>",
         "\n      ",
         "<ac:parameter ac:name=\"collapse\">", "false", "</ac:parameter>",
         "\n      ",
         "<ac:plain-text-body>", "<![CDATA[", code, "]]>",
         "</ac:plain-text-body>", "\n    ",
         "</ac:structured-macro>" >>

\* renderer.image
rendererImage(href) ==
  IF EndsWith(href, ".png") /\ StartsWith(href, "mermaid-")
  THEN << ImageAttachmentOpen, href, ImageClose >>
  ELSE << ImageUrlOpen, href, ImageClose >>

(* ------------------------------ marked -------------------------------- *)
(* marked.parse on the token sequence: fenced code blocks, paragraphs of   *)
(* lines, lines of three hyphens, and images inside paragraphs.  The model's text tokens hold no   *)
(* character that marked escapes.                                          *)

LinkMarks(tok) == { p \in 1..(Len(tok) - 1) : SubSeq(tok, p, p + 1) = "](" }

IsImage(tok) ==
  StartsWith(tok, "![") /\ EndsWith(tok, ")") /\ LinkMarks(tok) # {}

ImageHref(tok) == SubSeq(tok, Min(LinkMarks(tok)) + 2, Len(tok) - 1)

Inline(tok) == IF IsImage(tok) THEN rendererImage(ImageHref(tok)) ELSE <<tok>>

\* A paragraph's lines, the last line's newline dropped.
FlushPara(para, out) ==
  IF para = <<>> THEN out
  ELSE LET body == IF para[Len(para)] = NL
                   THEN SubSeq(para, 1, Len(para) - 1) ELSE para
       IN  out \o <<"<p>">> \o body \o <<"</p>", "\n">>

\* A line of three hyphens under a paragraph makes the paragraph a
\* second-level heading (no paragraph: a thematic break).
Underlined(para, out) ==
  IF para = <<>> THEN out \o << "<hr>", "\n" >>
  ELSE LET body == IF para[Len(para)] = NL
                   THEN SubSeq(para, 1, Len(para) - 1) ELSE para
       IN  out \o << "<h2>" >> \o body \o << "</h2>", "\n" >>

\* The code text of a fenced block: its lines without the final newline.
CodeText(body) ==
  LET s == Concat(body)
  IN  IF EndsWith(s, "\n") THEN SubSeq(s, 1, Len(s) - 1) ELSE s

\* The inline content of one line of a paragraph: toks[i..e].
RECURSIVE LineInline(_, _, _)
LineInline(toks, i, e) ==
  IF i > e THEN <<>> ELSE Inline(toks[i]) \o LineInline(toks, i + 1, e)

\* One step per block-level line: a fenced code block, a blank line, or a
\* line of a paragraph (which ends at its newline).
RECURSIVE Blocks(_, _, _, _)
Blocks(toks, i, para, out) ==
  IF i > Len(toks) THEN FlushPara(para, out)
  ELSE IF toks[i] = FENCE
  THEN LET tagged == i + 1 <= Len(toks) /\ toks[i + 1] = LANG
           cs == IF i + 1 <= Len(toks) /\ toks[i + 1] \in {LANG, NL}
                 THEN i + 2 ELSE i + 1
           \* a closing fence stands alone on its line
           Closers == { j \in cs..Len(toks) :
                          /\ toks[j] = FENCE
                          /\ toks[j - 1] \in {LANG, NL}
                          /\ (j = Len(toks) \/ toks[j + 1] = NL) }
           j == IF Closers = {} THEN Len(toks) + 1 ELSE Min(Closers)
           code == CodeText(SubSeq(toks, cs, j - 1))
       IN  Blocks(toks, j + 2, <<>>,
                  FlushPara(para, out)
                    \o rendererCode(code, IF tagged THEN "mermaid" ELSE ""))
  ELSE IF toks[i] = RULE /\ (i = Len(toks) \/ toks[i + 1] = NL)
  THEN Blocks(toks, i + 2, <<>>, Underlined(para, out))
  ELSE IF toks[i] = NL
  THEN Blocks(toks, i + 1, <<>>, FlushPara(para, out))
  ELSE LET Ends == { e \in i..Len(toks) : toks[e] = NL }
           e == IF Ends = {} THEN Len(toks) ELSE Min(Ends)
       IN  Blocks(toks, e + 1, para \o LineInline(toks, i, e), out)

markedParse(toks) == Blocks(toks, 1, <<>>, <<>>)

(* ------------------------------ cleanup ------------------------------- *)
(* html.replace(/>\s+</g, "><"): every run of whitespace that follows a >  *)
(* and is followed by a < goes.                                            *)

IsSpace(s) == Len(s) > 0 /\ \A p \in 1..Len(s) : SubSeq(s, p, p) \in WhiteSpace

\* Inside one chunk: the first run that matches goes, then the rest.
RECURSIVE CleanStr(_)
CleanStr(s) ==
  LET At(p) == SubSeq(s, p, p)
      Ink(p) == { q \in p..Len(s) : At(q) \notin WhiteSpace }
      \* a whitespace run starts at p, with > before it and < after it
      Starts == { p \in 2..Len(s) :
                    /\ At(p - 1) = ">" /\ At(p) \in WhiteSpace
                    /\ Ink(p) # {} /\ At(Min(Ink(p))) = "<" }
  IN  IF Starts = {} THEN s
      ELSE LET p == Min(Starts)
           IN  SubSeq(s, 1, p - 1) \o CleanStr(SubSeq(s, Min(Ink(p)), Len(s)))

\* The renderers' fixed chunks in which the pattern has no match, found once:
\* CleanStr leaves them as they are.
Unmatched ==
  LET code == rendererCode("", "")
      Fixed == { code[n] : n \in DOMAIN code }
                 \cup {ImageAttachmentOpen, ImageUrlOpen, ImageClose}
  IN  { c \in Fixed : CleanStr(c) = c }

\* The nearest chunk at or before i, at or after i, that is not whitespace
\* (0 and Len + 1 for none).
RECURSIVE PrevInk(_, _)
PrevInk(chunks, i) ==
  IF i = 0 \/ ~IsSpace(chunks[i]) THEN i ELSE PrevInk(chunks, i - 1)

RECURSIVE NextInk(_, _)
NextInk(chunks, i) ==
  IF i > Len(chunks) \/ ~IsSpace(chunks[i]) THEN i ELSE NextInk(chunks, i + 1)

\* Over the chunks: the whitespace chunks between a chunk that ends with >
\* and a chunk that starts with < go.
Cleanup(chunks) ==
  LET Drop == { i \in 1..Len(chunks) :
                  /\ IsSpace(chunks[i])
                  /\ LET a == PrevInk(chunks, i)
                         b == NextInk(chunks, i)
                     IN  /\ a >= 1 /\ b <= Len(chunks)
                         /\ EndsWith(chunks[a], ">")
                         /\ StartsWith(chunks[b], "<") }
      Numbered == [n \in 1..Len(chunks) |-> [at |-> n, chunk |-> chunks[n]]]
      Kept == SelectSeq(Numbered, LAMBDA c : c.at \notin Drop)
  IN  [n \in 1..Len(Kept) |->
         IF Kept[n].chunk \in Unmatched THEN Kept[n].chunk
         ELSE CleanStr(Kept[n].chunk)]

(* ------------------------------- state -------------------------------- *)

VARIABLES
  pc,                 \* where convertMarkdownToConfluence stands
  markdown,           \* its argument
  lastIndex,          \* mermaidRegex.lastIndex
  match,              \* the current match, Null for none
  mermaidCode,        \* match[1].trim()
  filename,           \* generateFilename(mermaidCode)
  attachments,        \* the attachments array
  mermaidBlocks,      \* the Map from block text to placeholder
  processedMarkdown,  \* the rewritten document
  ri,                 \* the entry of mermaidBlocks the replace loop is at
  html,               \* the markup returned
  requests,           \* history: the render requests sent to kroki.io
  blockLog,           \* history: every matched block and how its render went
  origin,             \* history: for each token of processedMarkdown, the
                      \* place in markdown it comes from, 0 for a placeholder
  marked,             \* the marked module's instance: the renderers that
                      \* marked.use has installed, the latest first
  fn,                 \* the exported function or renderer applied, "none" before
  arg,                \* its argument
  res,                \* what it returned
  parked,             \* a conversion call that waits at an await while
                      \* another call runs: its frame, <<>> for none
  returned,           \* history: what the conversion calls returned
  hpc,                \* where the tool-call handler of index.ts stands
  tool,               \* request.params.name
  args,               \* request.params.arguments
  content,            \* the Markdown content the tool converts
  spaceKey,           \* parseConfluenceUrl(...).spaceKey
  pageId,             \* the page the tool addresses, "" for none
  inTry,              \* upload_page is inside the try of lines 238-263
  currentPage,        \* what getPage returned
  newTitle,           \* title || currentPage.title
  page,               \* what createPage or updatePage returned
  ai,                 \* the attachment the upload loop is at
  wire,               \* history: the requests sent to Confluence
  result,             \* what the handler returned
  remote,             \* Confluence: the version of each page, 0 for no page
  self,               \* which tool call the handler's variables belong to
  waiting             \* a tool call that waits at an await while another
                      \* one runs: its frame, <<>> for none

\* The tool-call handler's state.
handler == << hpc, tool, args, content, spaceKey, pageId, inTry, currentPage,
              newTitle, page, ai, wire, result >>

\* The callers of the conversion.
calls == << parked, returned, handler, remote, self, waiting >>

\* What neither the conversion nor a step of the handler touches.
apart == << fn, arg, res, parked, returned, self, waiting >>

\* What the conversion does not touch.
others == << fn, arg, res, calls >>

\* The conversion's own state, and the marked instance it configures.
conversion == << pc, markdown, lastIndex, match, mermaidCode, filename,
                 attachments, mermaidBlocks, processedMarkdown, ri, html,
                 requests, blockLog, origin, marked >>

vars == << conversion, others >>

locals == << markdown, lastIndex, match, mermaidCode, filename >>

\* No conversion has been called.
NotCalled ==
  /\ pc = "idle"
  /\ markdown = <<>>
  /\ lastIndex = 0
  /\ match = Null
  /\ mermaidCode = ""
  /\ filename = ""
  /\ attachments = <<>>
  /\ mermaidBlocks = <<>>
  /\ processedMarkdown = <<>>
  /\ ri = 1
  /\ html = <<>>
  /\ requests = <<>>
  /\ blockLog = <<>>
  /\ origin = <<>>
  /\ marked = <<>>

\* The pages the tools address, and a Confluence that has none of them.
KnownPages == { "123", "456" }

NoPages == [p \in KnownPages |-> 0]

\* No call waits and none has returned.
NoTool ==
  /\ parked = <<>>
  /\ returned = <<>>
  /\ hpc = "ready"
  /\ tool = ""
  /\ args = <<>>
  /\ content = <<>>
  /\ spaceKey = ""
  /\ pageId = ""
  /\ inTry = FALSE
  /\ currentPage = <<>>
  /\ newTitle = ""
  /\ page = <<>>
  /\ ai = 1
  /\ wire = <<>>
  /\ result = <<>>
  /\ self = 1
  /\ waiting = <<>>

NoCalls ==
  /\ NoTool
  /\ remote = NoPages

Init ==
  /\ NotCalled
  /\ NoCalls
  /\ fn = "none"
  /\ arg = <<>>
  /\ res = <<>>

SetOutcome(log, o) == [log EXCEPT ![Len(log)].outcome = o]

\* As if the two collections were module-level: a call keeps what the
\* calls before it put there.
CallWith_SharedCollections(D) ==
  /\ pc = "idle"
  /\ \E doc \in D :
       /\ markdown' = doc
       /\ processedMarkdown' = doc
       /\ origin' = [n \in 1..Len(doc) |-> n]
  /\ lastIndex' = 0
  /\ pc' = "exec"
  /\ UNCHANGED << match, mermaidCode, filename, ri, html, requests, blockLog,
                  attachments, mermaidBlocks >>
  /\ UNCHANGED << marked, apart, remote >>

\* convertMarkdownToConfluence(markdown) is called with a document of D:
\* lines 52-58.
CallWith(D) ==
  /\ pc = "idle"
  /\ \E doc \in D :
       /\ markdown' = doc
       /\ processedMarkdown' = doc
       /\ origin' = [n \in 1..Len(doc) |-> n]
  /\ lastIndex' = 0
  /\ attachments' = <<>>
  /\ mermaidBlocks' = <<>>
  /\ pc' = "exec"
  /\ UNCHANGED << match, mermaidCode, filename, ri, html, requests, blockLog >>
  /\ UNCHANGED << marked, apart, remote >>

Call ==
  CallWith(Docs) /\ UNCHANGED handler

\* The loop condition finds a block: trim, name it, and send the request
\* (renderMermaidToPng up to its await of fetch).
ExecMatch ==
  /\ pc = "exec"
  /\ LET m == RegexExec(markdown, lastIndex)
     IN  /\ m # Null
         /\ match' = m
         /\ lastIndex' = m.last
         /\ LET code == Trim(Concat(m.inner))
                name == generateFilename(code)
            IN  /\ mermaidCode' = code
                /\ filename' = name
                /\ requests' = Append(requests, [body |-> code, block |-> m.index])
                /\ blockLog' = Append(blockLog,
                     [index |-> m.index, last |-> m.last, inner |-> m.inner,
                      code |-> code, filename |-> name, outcome |-> "pending"])
  /\ pc' = "fetch"
  /\ UNCHANGED << markdown, attachments, mermaidBlocks, processedMarkdown, ri,
                  html, origin >>
  /\ UNCHANGED << marked, others >>

\* The loop condition finds no further block: the loop ends.
ExecNull ==
  /\ pc = "exec"
  /\ RegexExec(markdown, lastIndex) = Null
  /\ match' = Null
  /\ lastIndex' = 0
  /\ ri' = 1
  /\ pc' = "replace"
  /\ UNCHANGED << markdown, mermaidCode, filename, attachments, mermaidBlocks,
                  processedMarkdown, html, requests, blockLog, origin >>
  /\ UNCHANGED << marked, others >>

\* fetch resolves with response.ok: renderMermaidToPng awaits the body.
FetchOk ==
  /\ pc = "fetch"
  /\ pc' = "body"
  /\ UNCHANGED << locals, attachments, mermaidBlocks, processedMarkdown, ri,
                  html, requests, blockLog, origin >>
  /\ UNCHANGED << marked, others >>

FetchNotOk_Propagate ==
  /\ pc = "fetch"
  /\ blockLog' = SetOutcome(blockLog, "status")
  /\ pc' = "threw"
  /\ UNCHANGED << locals, attachments, mermaidBlocks, processedMarkdown, ri,
                  html, requests, origin >>
  /\ UNCHANGED << marked, others >>

\* fetch resolves with a non-success status: line 31 throws, line 72 catches.
FetchNotOk ==
  /\ pc = "fetch"
  /\ blockLog' = SetOutcome(blockLog, "status")
  /\ pc' = "exec"
  /\ UNCHANGED << locals, attachments, mermaidBlocks, processedMarkdown, ri,
                  html, requests, origin >>
  /\ UNCHANGED << marked, others >>

\* fetch rejects (network error): line 72 catches.
FetchReject ==
  /\ pc = "fetch"
  /\ blockLog' = SetOutcome(blockLog, "neterr")
  /\ pc' = "exec"
  /\ UNCHANGED << locals, attachments, mermaidBlocks, processedMarkdown, ri,
                  html, requests, origin >>
  /\ UNCHANGED << marked, others >>

\* response.arrayBuffer() resolves: lines 67-71.
BodyOk ==
  /\ pc = "body"
  /\ attachments' = Push(attachments,
                         [filename |-> filename, data |-> Png(mermaidCode)])
  /\ mermaidBlocks' = MapSet(mermaidBlocks, match.text, Placeholder(filename))
  /\ blockLog' = SetOutcome(blockLog, "ok")
  /\ pc' = "exec"
  /\ UNCHANGED << locals, processedMarkdown, ri, html, requests, origin >>
  /\ UNCHANGED << marked, others >>

\* response.arrayBuffer() rejects (malformed response): line 72 catches.
BodyReject ==
  /\ pc = "body"
  /\ blockLog' = SetOutcome(blockLog, "bodyerr")
  /\ pc' = "exec"
  /\ UNCHANGED << locals, attachments, mermaidBlocks, processedMarkdown, ri,
                  html, requests, origin >>
  /\ UNCHANGED << marked, others >>

\* One turn of the replace loop, lines 79-81.
ReplaceStep ==
  /\ pc = "replace"
  /\ ri <= Len(mermaidBlocks)
  /\ LET original == mermaidBlocks[ri].key
         replacement == mermaidBlocks[ri].value
         p == IndexOf(processedMarkdown, original)
     IN  /\ processedMarkdown' =
              StringReplace(processedMarkdown, original, replacement)
         /\ origin' = IF p = 0 THEN origin
                      ELSE SubSeq(origin, 1, p - 1) \o <<0>>
                             \o SubSeq(origin, p + Len(original), Len(origin))
  /\ ri' = ri + 1
  /\ UNCHANGED << pc, locals, attachments, mermaidBlocks, html, requests,
                  blockLog >>
  /\ UNCHANGED << marked, others >>

\* The replace loop is over: configure marked, parse, clean up, return
\* (lines 83-126, no await among them).  marked.use puts this call's
\* renderer before the ones installed earlier; its code and image
\* functions never return false, so they are the ones marked.parse calls.
Parse ==
  /\ pc = "replace"
  /\ ri > Len(mermaidBlocks)
  /\ marked' = << "confluence" >> \o marked
  /\ html' = Cleanup(markedParse(processedMarkdown))
  /\ pc' = "done"
  /\ UNCHANGED << locals, attachments, mermaidBlocks, processedMarkdown, ri,
                  requests, blockLog, origin >>
  /\ UNCHANGED others

Next ==
  \/ Call
  \/ ExecMatch
  \/ ExecNull
  \/ FetchOk
  \/ FetchNotOk
  \/ FetchReject
  \/ BodyOk
  \/ BodyReject
  \/ ReplaceStep
  \/ Parse

Spec == Init /\ [][Next]_vars

\* Every render call responds or fails.
Responds ==
  WF_vars(FetchOk \/ FetchNotOk \/ FetchReject \/ BodyOk \/ BodyReject)

\* Code that is ready to run runs: weak fairness of ExecMatch, ExecNull,
\* ReplaceStep and Parse, with their enabling condition written out (one of
\* them is enabled exactly when pc is "exec" or "replace").
Runs == []<>(pc \notin {"exec", "replace"}) \/ []<><<TRUE>>_vars

FairSpec == Spec /\ Responds /\ Runs

(* ---------------------- several conversion calls --------------------- *)
(* Node runs one call at a time and leaves it only at an await.  The call *)
(* that runs has its frame in the conversion's variables; a call that     *)
(* waits at an await of renderMermaidToPng has its frame in parked.       *)

\* At most MaxRuns conversion calls are made.
MaxRuns == 3

\* The documents the calls are given: a diagram and a hand-written image,
\* and the same diagram source after a blank line.
RunDocs ==
  { << FENCE, LANG, SrcA, NL, FENCE, NL, IMG, NL >>,
    << FENCE, LANG, NL, SrcA, NL, FENCE, NL >> }

\* The frame of the call that runs.
Frame ==
  [pc |-> pc, markdown |-> markdown, lastIndex |-> lastIndex, match |-> match,
   mermaidCode |-> mermaidCode, filename |-> filename,
   attachments |-> attachments, mermaidBlocks |-> mermaidBlocks,
   processedMarkdown |-> processedMarkdown, ri |-> ri, html |-> html,
   requests |-> requests, blockLog |-> blockLog, origin |-> origin]

\* The frame f becomes the one that runs.
Restore(f) ==
  /\ pc' = f.pc
  /\ markdown' = f.markdown
  /\ lastIndex' = f.lastIndex
  /\ match' = f.match
  /\ mermaidCode' = f.mermaidCode
  /\ filename' = f.filename
  /\ attachments' = f.attachments
  /\ mermaidBlocks' = f.mermaidBlocks
  /\ processedMarkdown' = f.processedMarkdown
  /\ ri' = f.ri
  /\ html' = f.html
  /\ requests' = f.requests
  /\ blockLog' = f.blockLog
  /\ origin' = f.origin

\* What the call that is done returns (line 126), with the responses its
\* render requests got and whether another call was waiting meanwhile.
Returned ==
  [markdown |-> markdown,
   responses |-> [k \in 1..Len(blockLog) |-> blockLog[k].outcome],
   html |-> html,
   attachments |-> attachments,
   overlapped |-> parked # <<>>]

\* A caller calls convertMarkdownToConfluence.
CallRun ==
  /\ Len(returned) + Len(parked) < MaxRuns
  /\ CallWith(RunDocs)
  /\ UNCHANGED handler

\* The call returns to its caller (line 126); the histories start again
\* for the next call.  The other variables keep what the call left there
\* until a later call assigns them.
Return ==
  /\ pc = "done"
  /\ returned' = Append(returned, Returned)
  /\ pc' = "idle"
  /\ requests' = <<>>
  /\ blockLog' = <<>>
  /\ UNCHANGED << locals, attachments, mermaidBlocks, processedMarkdown, ri,
                  html, origin, marked, fn, arg, res, parked, handler,
                  remote, self, waiting >>

\* The call waits at an await of renderMermaidToPng (lines 26 and 35) and
\* Node is free to run another caller.
Suspend ==
  /\ pc \in {"fetch", "body"}
  /\ parked = <<>>
  /\ Len(returned) + 1 < MaxRuns
  /\ parked' = << Frame >>
  /\ pc' = "idle"
  /\ requests' = <<>>
  /\ blockLog' = <<>>
  /\ UNCHANGED << locals, attachments, mermaidBlocks, processedMarkdown, ri,
                  html, origin, marked, fn, arg, res, returned, handler,
                  remote, self, waiting >>

\* The call that waited goes on: the one that ran has returned, or waits
\* at an await in its turn.
Resume ==
  /\ parked # <<>>
  /\ pc \in {"idle", "fetch", "body"}
  /\ Restore(parked[1])
  /\ parked' = IF pc = "idle" THEN <<>> ELSE << Frame >>
  /\ UNCHANGED << marked, fn, arg, res, returned, handler, remote, self,
                  waiting >>

RunsNext ==
  \/ CallRun
  \/ ExecMatch
  \/ ExecNull
  \/ FetchOk
  \/ FetchNotOk
  \/ FetchReject
  \/ BodyOk
  \/ BodyReject
  \/ ReplaceStep
  \/ Parse
  \/ Return
  \/ Suspend
  \/ Resume

RunsSpec == Init /\ [][RunsNext]_vars

(* ------------------- the renderers applied alone ---------------------- *)

\* Image targets: a directory or host, a stem and an extension.
Hrefs ==
  { pre \o stem \o ext :
      pre \in {"mermaid-", "Mermaid-", "img/mermaid-", "https://x.org/", ""},
      stem \in {"0123456789ab", "f55d01def263", "0123456789a", "0123456789abc",
                "0123456789AB", "zzzzzzzzzzzz", "arch"},
      ext \in {".png", ".PNG", ".png?v=2", ".jpg"} }

InitImage ==
  /\ NotCalled
  /\ NoCalls
  /\ fn = "none"
  /\ arg \in Hrefs
  /\ res = <<>>

\* marked calls renderer.image with the image's target.
RenderImage ==
  /\ fn = "none"
  /\ fn' = "image"
  /\ res' = rendererImage(arg)
  /\ UNCHANGED << conversion, arg, calls >>

ImageSpec == InitImage /\ [][RenderImage]_vars

\* Code texts and the language tags of a fence ("" for no tag).
CodeTexts ==
  { "", "x = 1", "a > b", "<b>bold</b>", "&amp;", "</ac:plain-text-body>",
    "if (a[b[0]]>c) {}", "]]>", "<p>\n  <q>", "p>\n<q" }

Languages == { "", "js", "python", "text" }

InitCode ==
  /\ NotCalled
  /\ NoCalls
  /\ fn = "none"
  /\ arg \in [code : CodeTexts, language : Languages]
  /\ res = <<>>

\* marked calls renderer.code with the block's text and its language tag.
RenderCode ==
  /\ fn = "none"
  /\ arg \in [code : CodeTexts, language : Languages]
  /\ fn' = "code"
  /\ res' = rendererCode(arg.code, arg.language)
  /\ UNCHANGED << conversion, arg, calls >>

\* The cleanup of line 124 on the serialized block.
CleanCode ==
  /\ fn = "code"
  /\ fn' = "cleaned"
  /\ res' = Cleanup(res)
  /\ UNCHANGED << conversion, arg, calls >>

CodeSpec == InitCode /\ [][RenderCode \/ CleanCode]_vars

(* --------------------------- removeFrontMatter ------------------------ *)
(* Here a document is its text, a string.                                  *)

\* The first place at or after from where pat stands in str, 0 for none.
Find(str, pat, from) ==
  LET Hits == { p \in from..(Len(str) - Len(pat) + 1) :
                  SubSeq(str, p, p + Len(pat) - 1) = pat }
  IN  IF Hits = {} THEN 0 ELSE Min(Hits)

\* markdown.replace(/^---\n[\s\S]*?\n---\n/, ""): the text starts with
\* three hyphens and a newline, and the match ends with the first
\* newline, three hyphens, newline that begins after them.
removeFrontMatter(md) ==
  IF StartsWith(md, "---\n")
  THEN LET close == Find(md, "\n---\n", 5)
       IN  IF close = 0 THEN md ELSE SubSeq(md, close + 5, Len(md))
  ELSE md

FrontLines == { "---\n", "---", "title: \"My Doc\"\n", "# Other\n", "text" }

RECURSIVE LinesUpTo(_, _)
LinesUpTo(lines, n) ==
  IF n = 0 THEN { "" }
  ELSE LET prev == LinesUpTo(lines, n - 1)
       IN  prev \cup { d \o l : d \in prev, l \in lines }

InitFront ==
  /\ NotCalled
  /\ NoCalls
  /\ fn = "none"
  /\ arg \in LinesUpTo(FrontLines, MaxFrontLines)
  /\ res = <<>>

\* removeFrontMatter(arg); res lists what the calls returned.
RemoveFrontMatter ==
  /\ fn = "none"
  /\ fn' = "removeFrontMatter"
  /\ res' = << removeFrontMatter(arg) >>
  /\ UNCHANGED << conversion, arg, calls >>

\* removeFrontMatter on what the first call returned.
RemoveFrontMatterAgain ==
  /\ fn = "removeFrontMatter"
  /\ Len(res) = 1
  /\ res' = Append(res, removeFrontMatter(res[1]))
  /\ UNCHANGED << conversion, fn, arg, calls >>

FrontSpec == InitFront /\ [][RemoveFrontMatter \/ RemoveFrontMatterAgain]_vars

(* ------------------------------ extractTitle -------------------------- *)

Quotes == { "\"", "'" }

\* The first place at or after from whose character is not in Skip,
\* Len + 1 for none.
FirstNotIn(str, from, Skip) ==
  LET Stops == { p \in from..Len(str) : SubSeq(str, p, p) \notin Skip }
  IN  IF Stops = {} THEN Len(str) + 1 ELSE Min(Stops)

\* The longest run from g of characters not in Bad.
RunFrom(str, g, Bad) ==
  LET Ends == { p \in g..Len(str) : SubSeq(str, p, p) \in Bad }
  IN  SubSeq(str, g, IF Ends = {} THEN Len(str) ELSE Min(Ends) - 1)

\* /^---\n[\s\S]*?title:\s*["']?([^"'\n]+)["']?/ with title: standing at t:
\* where the group begins, 0 when the rest does not match there.  The
\* whitespace is taken greedily, then the quote; failing that the match
\* backs up: no quote, then less whitespace (the group may start with a
\* blank, never with a newline or a quote).
TitleGroupAt(md, t) ==
  LET At(p) == SubSeq(md, p, p)
      w == FirstNotIn(md, t + 6, WhiteSpace)
      Back == { k \in (t + 6)..(w - 1) : At(k) # "\n" }
  IN  IF w < Len(md) /\ At(w) \in Quotes /\ At(w + 1) \notin Quotes \cup {"\n"}
      THEN w + 1
      ELSE IF w <= Len(md) /\ At(w) \notin Quotes THEN w
      ELSE IF Back # {} THEN Max(Back)
      ELSE 0

\* markdown.match of the front-matter regex: the group of the leftmost
\* title: (from the fifth character on) at which the rest matches, or null.
frontMatterMatch(md) ==
  IF ~StartsWith(md, "---\n") THEN Null
  ELSE LET Hits == { t \in 5..(Len(md) - 5) :
                       /\ SubSeq(md, t, t + 5) = "title:"
                       /\ TitleGroupAt(md, t) # 0 }
       IN  IF Hits = {} THEN Null
           ELSE [index |-> 1,
                 group |-> RunFrom(md, TitleGroupAt(md, Min(Hits)),
                                   Quotes \cup {"\n"})]

\* markdown.match(/^#\s+(.+)$/m): a # at the start of a line, whitespace,
\* and the rest of a line; the whitespace is taken greedily and given back
\* when no character of a line follows it.
h1GroupAt(md, h) ==
  LET At(p) == SubSeq(md, p, p)
      w == FirstNotIn(md, h + 1, WhiteSpace)
      Back == { k \in (h + 2)..(w - 1) : At(k) \notin {"\n", "\r"} }
  IN  IF w > h + 1 /\ w <= Len(md) THEN w
      ELSE IF w > h + 1 /\ Back # {} THEN Max(Back)
      ELSE 0

h1Match(md) ==
  LET Hits == { h \in 1..Len(md) :
                  /\ SubSeq(md, h, h) = "#"
                  /\ (h = 1 \/ SubSeq(md, h - 1, h - 1) = "\n")
                  /\ h1GroupAt(md, h) # 0 }
  IN  IF Hits = {} THEN Null
      ELSE [index |-> Min(Hits),
            group |-> RunFrom(md, h1GroupAt(md, Min(Hits)), {"\n", "\r"})]

extractTitle(md, fallback) ==
  IF frontMatterMatch(md) # Null THEN Trim(frontMatterMatch(md).group)
  ELSE IF h1Match(md) # Null THEN Trim(h1Match(md).group)
  ELSE fallback

TitleLines ==
  { "---\n", "title: \"My Doc\"\n", "title: Bob's Doc\n", "subtitle: Sub\n",
    "# Other\n", "text\n" }

Fallbacks == { "Untitled", "notes.md" }

InitTitle ==
  /\ NotCalled
  /\ NoCalls
  /\ fn = "none"
  /\ arg \in [markdown : LinesUpTo(TitleLines, MaxTitleLines),
              fallback : Fallbacks]
  /\ res = <<>>

ExtractTitle ==
  /\ fn = "none"
  /\ fn' = "extractTitle"
  /\ res' = extractTitle(arg.markdown, arg.fallback)
  /\ UNCHANGED << conversion, arg, calls >>

TitleSpec == InitTitle /\ [][ExtractTitle]_vars

(* --------------------------- the tool handler ------------------------- *)
(* The handler of tool calls, src/src/index.ts, and the client's requests *)
(* to Confluence, src/src/confluence.ts.  A request and its response are  *)
(* one step.                                                              *)

Includes(str, pat) == Find(str, pat, 1) # 0

Digits == { "0", "1", "2", "3", "4", "5", "6", "7", "8", "9" }

\* The places where pat stands in str.
Places(str, pat) ==
  { p \in 1..(Len(str) - Len(pat) + 1) : SubSeq(str, p, p + Len(pat) - 1) = pat }

\* input.match(/\/spaces\/([^\/]+)/): the group, "" for no match.
spaceMatch(input) ==
  LET Hits == { p \in Places(input, "/spaces/") :
                  /\ p + 8 <= Len(input)
                  /\ SubSeq(input, p + 8, p + 8) # "/" }
  IN  IF Hits = {} THEN "" ELSE RunFrom(input, Min(Hits) + 8, {"/"})

\* input.match(/pat(\d+)/): the group, "" for no match.
DigitsAfter(input, pat) ==
  LET Hits == { p \in Places(input, pat) :
                  /\ p + Len(pat) <= Len(input)
                  /\ SubSeq(input, p + Len(pat), p + Len(pat)) \in Digits }
  IN  IF Hits = {} THEN ""
      ELSE LET g == Min(Hits) + Len(pat)
           IN  SubSeq(input, g, FirstNotIn(input, g, Digits) - 1)

editPageMatch(input) == DigitsAfter(input, "/pages/edit-v2/")

pageMatch(input) == DigitsAfter(input, "/pages/")

\* parseConfluenceUrl; pageId is "" where the source leaves it undefined.
parseConfluenceUrl(input) ==
  IF StartsWith(input, "http")
  THEN IF spaceMatch(input) = ""
       THEN [threw |-> TRUE,
             message |-> "Could not extract space key from URL: " \o input,
             spaceKey |-> "", pageId |-> ""]
       ELSE [threw |-> FALSE, message |-> "",
             spaceKey |-> spaceMatch(input),
             pageId |-> IF editPageMatch(input) # "" THEN editPageMatch(input)
                        ELSE pageMatch(input)]
  ELSE [threw |-> FALSE, message |-> "", spaceKey |-> input, pageId |-> ""]

\* The documents the tools are given: one with a front-matter block, one
\* with two diagrams.
DocFront == << RULE, NL, FIELD, NL, RULE, NL, TEXT, NL >>

DocDiagrams ==
  << FENCE, LANG, SrcA, NL, FENCE, NL, FENCE, LANG, SrcB, NL, FENCE, NL >>

ToolDocs == { DocFront, DocDiagrams }

\* The file system sync_file reads.
Files ==
  [path \in {"/docs/notes.md", "/docs/diagrams.md"} |->
     IF path = "/docs/notes.md" THEN DocFront ELSE DocDiagrams]

existsSync(path) == path \in DOMAIN Files

readFileSync(path) == Files[path]

FilePaths == DOMAIN Files \cup { "/docs/missing.md" }

\* A space key, a space URL, two page URLs and a URL of no space.
Urls ==
  { "DOCS",
    "https://x.atlassian.net/wiki/spaces/DOCS/overview",
    "https://x.atlassian.net/wiki/spaces/DOCS/pages/123/Title",
    "https://x.atlassian.net/wiki/spaces/DOCS/pages/edit-v2/456?draftShareId=1",
    "https://x.atlassian.net/wiki/home" }

PageIds == { "123" }

\* No title given, or one.
Titles == { "", "New title" }

\* invalid holds the fields that the tool's schema does not accept.
NoArgs ==
  [content |-> <<>>, title |-> "", space |-> "", parentId |-> "",
   pageId |-> "", file_path |-> "", page_url |-> "", parentPageUrl |-> "",
   query |-> "", invalid |-> {}]

\* The tools of the switch (lines 227-421).
Tools ==
  { "upload_page", "update_page", "list_spaces", "search_pages", "sync_file",
    "create_child_page" }

\* The calls of the tools that upload content.
UploadCalls ==
  { [tool |-> "upload_page",
     args |-> [NoArgs EXCEPT !.content = c, !.title = t, !.space = u]] :
       c \in ToolDocs, t \in Titles, u \in Urls }
  \cup
  { [tool |-> "update_page",
     args |-> [NoArgs EXCEPT !.content = c, !.title = t, !.pageId = p]] :
       c \in ToolDocs, t \in Titles, p \in PageIds }
  \cup
  { [tool |-> "sync_file",
     args |-> [NoArgs EXCEPT !.file_path = f, !.title = t, !.page_url = u]] :
       f \in FilePaths, t \in Titles, u \in Urls }
  \cup
  { [tool |-> "create_child_page",
     args |-> [NoArgs EXCEPT !.content = c, !.title = t, !.parentPageUrl = u]] :
       c \in ToolDocs, t \in Titles, u \in Urls }

\* The calls of the tools that only read.
ReadCalls ==
  { [tool |-> "list_spaces", args |-> NoArgs],
    [tool |-> "search_pages", args |-> [NoArgs EXCEPT !.query = "release"]] }

\* Calls the handler cannot serve: a name that is no tool, and for every
\* tool arguments that its schema does not accept.
BadCalls ==
  { [tool |-> "delete_page", args |-> NoArgs] }
  \cup
  { [tool |-> "upload_page", args |-> [NoArgs EXCEPT !.invalid = {"content"}]],
    [tool |-> "update_page", args |-> [NoArgs EXCEPT !.invalid = {"pageId"}]],
    [tool |-> "list_spaces", args |-> [NoArgs EXCEPT !.invalid = {"type"}]],
    [tool |-> "search_pages", args |-> [NoArgs EXCEPT !.invalid = {"query"}]],
    [tool |-> "sync_file", args |-> [NoArgs EXCEPT !.invalid = {"file_path"}]],
    [tool |-> "create_child_page",
     args |-> [NoArgs EXCEPT !.invalid = {"title"}]] }

ToolCalls == UploadCalls \cup ReadCalls \cup BadCalls

\* The responses of Confluence: success, not found, forbidden, version
\* conflict, and no response at all (fetch rejects).
Ok == [ok |-> TRUE, status |-> "200", text |-> ""]

NotFound ==
  [ok |-> FALSE, status |-> "404",
   text |-> "{\"statusCode\":404,\"message\":\"No content found with id\"}"]

Forbidden ==
  [ok |-> FALSE, status |-> "403",
   text |-> "{\"statusCode\":403,\"message\":\"Forbidden\"}"]

Conflict ==
  [ok |-> FALSE, status |-> "409",
   text |-> "{\"statusCode\":409,\"message\":\"Version must be incremented\"}"]

Unreachable == [ok |-> FALSE, status |-> "", text |-> "fetch failed"]

\* What any request may be answered whatever the page's state.
Transient == { Forbidden, Unreachable }

Failures == { NotFound } \cup Transient

Responses == { Ok } \cup Failures

\* The versions a page may have at first, its title, the id of a new page.
Versions == { 1, 4 }

NewPageId == "900"

Remotes == [KnownPages -> {0} \cup Versions]

\* The page is there: a page of remote, or the page createPage made.
Exists(p) == IF p \in KnownPages THEN remote[p] > 0 ELSE p = NewPageId

\* GET /content/<p>.
GetResponses(p) ==
  IF Exists(p) THEN { Ok } \cup Transient ELSE Failures

\* PUT /content/<p> with a version: Confluence takes the version that is
\* one more than the page's.
UpdateResponses(p, version) ==
  IF ~Exists(p) THEN Failures
  ELSE IF version = remote[p] + 1 THEN { Ok } \cup Transient
  ELSE { Conflict } \cup Transient

\* POST /content/<p>/child/attachment: Confluence answers 404 also for an
\* attachment it does not take on a page that is there.
UploadResponses(p) ==
  IF Exists(p) THEN Responses ELSE Failures

RemoteTitle == "Old title"

\* The message of the error that request throws (confluence.ts line 28).
RequestError(r) ==
  IF r.status = "" THEN r.text
  ELSE "Confluence API error (" \o r.status \o "): " \o r.text

\* The message of the error that uploadAttachment throws (line 137).
UploadError(r) ==
  IF r.status = "" THEN r.text
  ELSE "Failed to upload attachment: " \o r.text

\* A request on the wire; renders counts the render requests sent so far.
Sent(op, r) ==
  [call |-> self, op |-> op, ok |-> r.ok, status |-> r.status,
   pageId |-> "", spaceKey |-> "", parentId |-> "",
   title |-> "", html |-> <<>>, version |-> 0, filename |-> "",
   renders |-> Len(requests)]

\* The error result of the outer catch (lines 427-437; the text begins
\* with a cross mark).
ErrorResult(message) == [isError |-> TRUE, text |-> "Error: " \o message]

\* As if the switch were not inside a try: what the catch of upload_page
\* does not take leaves the handler.
Throw_NoOuterCatch(message) ==
  IF inTry /\ (Includes(message, "404") \/ Includes(message, "not found"))
  THEN /\ hpc' = "createPage"
       /\ inTry' = FALSE
       /\ result' = result
  ELSE /\ hpc' = "threw"
       /\ inTry' = inTry
       /\ result' = result

\* An error is thrown: the catch of upload_page (lines 256-263) takes the
\* ones whose message holds 404 or not found and goes on to create a page;
\* every other one reaches the outer catch.
Throw(message) ==
  IF inTry /\ (Includes(message, "404") \/ Includes(message, "not found"))
  THEN /\ hpc' = "createPage"
       /\ inTry' = FALSE
       /\ result' = result
  ELSE /\ hpc' = "returned"
       /\ inTry' = inTry
       /\ result' = ErrorResult(message)

\* The URL argument of a call, "" for a tool that takes none.
UrlOf(c) ==
  IF c.tool = "upload_page" THEN c.args.space
  ELSE IF c.tool = "sync_file" THEN c.args.page_url
  ELSE IF c.tool = "create_child_page" THEN c.args.parentPageUrl
  ELSE ""

\* The message of the error Schema.parse(args) throws.
ZodMessage(a) ==
  "[{\"path\":[\"" \o (CHOOSE f \in a.invalid : TRUE) \o "\"],\"message\":\"Invalid\"}]"

Rejected_NoPageIdCheck(c) ==
  LET a == c.args
      parsed == parseConfluenceUrl(UrlOf(c))
  IN  IF c.tool \notin Tools THEN "Unknown tool: " \o c.tool
      ELSE IF a.invalid # {} THEN ZodMessage(a)
      ELSE IF c.tool = "sync_file" /\ ~existsSync(a.file_path)
      THEN "File not found: " \o a.file_path
      ELSE IF c.tool \in {"upload_page", "sync_file", "create_child_page"}
              /\ parsed.threw
      THEN parsed.message
      ELSE ""

\* What the handler throws before its first await, "" for nothing: the
\* default of the switch, the schema, the file, the URL, the page id.
Rejected(c) ==
  LET a == c.args
      parsed == parseConfluenceUrl(UrlOf(c))
  IN  IF c.tool \notin Tools THEN "Unknown tool: " \o c.tool
      ELSE IF a.invalid # {} THEN ZodMessage(a)
      ELSE IF c.tool = "sync_file" /\ ~existsSync(a.file_path)
      THEN "File not found: " \o a.file_path
      ELSE IF c.tool \in {"upload_page", "sync_file", "create_child_page"}
              /\ parsed.threw
      THEN parsed.message
      ELSE IF c.tool = "sync_file" /\ parsed.pageId = ""
      THEN "Could not extract page ID from URL: " \o UrlOf(c)
             \o ". Please provide a valid Confluence page URL."
      ELSE IF c.tool = "create_child_page" /\ parsed.pageId = ""
      THEN "Could not extract parent page ID from URL: " \o UrlOf(c)
             \o ". Please provide a valid Confluence page URL."
      ELSE ""

\* The first await of a tool.
FirstAwait(t) ==
  IF t = "list_spaces" THEN "listSpaces"
  ELSE IF t = "search_pages" THEN "searchPages"
  ELSE IF t \in {"update_page", "sync_file"} THEN "getPage"
  ELSE "convert"

\* A tool is called with a call of Calls: the handler runs up to its first
\* await.
ToolCallWith(Calls) ==
  /\ hpc = "ready"
  /\ \E c \in Calls :
       LET a == c.args
           parsed == parseConfluenceUrl(UrlOf(c))
           message == Rejected(c)
       IN  /\ tool' = c.tool
           /\ args' = a
           /\ IF message # ""
              THEN /\ hpc' = "returned"
                   /\ result' = ErrorResult(message)
                   /\ UNCHANGED << content, spaceKey, pageId >>
              ELSE /\ hpc' = FirstAwait(c.tool)
                   /\ content' = IF c.tool = "sync_file"
                                 THEN readFileSync(a.file_path) ELSE a.content
                   /\ spaceKey' = parsed.spaceKey
                   /\ pageId' = IF c.tool = "update_page" THEN a.pageId
                                ELSE parsed.pageId
                   /\ UNCHANGED result
  /\ UNCHANGED << inTry, currentPage, newTitle, page, ai, wire >>
  /\ UNCHANGED << conversion, apart, remote >>

ToolCall == ToolCallWith(ToolCalls)

\* The handler calls convertMarkdownToConfluence(content).
Convert ==
  /\ hpc = "convert"
  /\ CallWith({content})
  /\ UNCHANGED handler

\* The conversion has returned: upload_page with a page id enters its try,
\* the other tools go on to their page request.
Converted ==
  /\ hpc = "convert"
  /\ pc = "done"
  /\ hpc' = CASE tool = "upload_page" /\ pageId # "" -> "getPage"
              [] tool \in {"update_page", "sync_file"} -> "updatePage"
              [] OTHER -> "createPage"
  /\ inTry' = (tool = "upload_page" /\ pageId # "")
  /\ UNCHANGED << tool, args, content, spaceKey, pageId, currentPage, newTitle,
                  page, ai, wire, result >>
  /\ UNCHANGED << conversion, apart, remote >>

\* The version an update request carries: currentPage.version + 1.
NextVersion_Same(current) == current.version

NextVersion(current) == current.version + 1

\* client.getPage(pageId) and title || currentPage.title.
GetPage ==
  /\ hpc = "getPage"
  /\ \/ /\ Ok \in GetResponses(pageId)
        /\ wire' = Append(wire, [Sent("getPage", Ok) EXCEPT
                                   !.pageId = pageId, !.title = RemoteTitle,
                                   !.version = remote[pageId]])
        /\ currentPage' = [id |-> pageId, title |-> RemoteTitle,
                           version |-> remote[pageId]]
        /\ newTitle' = IF args.title # "" THEN args.title ELSE RemoteTitle
        /\ hpc' = IF tool = "upload_page" THEN "updatePage" ELSE "convert"
        /\ UNCHANGED << inTry, result >>
     \/ \E r \in GetResponses(pageId) \ { Ok } :
          /\ wire' = Append(wire, [Sent("getPage", r) EXCEPT !.pageId = pageId])
          /\ Throw(RequestError(r))
          /\ UNCHANGED << currentPage, newTitle >>
  /\ UNCHANGED << tool, args, content, spaceKey, pageId, page, ai >>
  /\ UNCHANGED << conversion, apart, remote >>

\* client.updatePage(pageId, newTitle, html, currentPage.version + 1).
UpdatePage ==
  /\ hpc = "updatePage"
  /\ \E r \in UpdateResponses(pageId, NextVersion(currentPage)) :
       /\ wire' = Append(wire, [Sent("updatePage", r) EXCEPT
                                  !.pageId = pageId, !.title = newTitle,
                                  !.html = html,
                                  !.version = NextVersion(currentPage)])
       /\ IF r.ok
          THEN /\ page' = [id |-> pageId, version |-> NextVersion(currentPage)]
               /\ remote' = [remote EXCEPT ![pageId] = NextVersion(currentPage)]
               /\ ai' = 1
               /\ hpc' = "uploadAttachment"
               /\ UNCHANGED << inTry, result >>
          ELSE /\ Throw(RequestError(r))
               /\ UNCHANGED << page, ai, remote >>
  /\ UNCHANGED << tool, args, content, spaceKey, pageId, currentPage, newTitle >>
  /\ UNCHANGED << conversion, apart >>

\* client.createPage(spaceKey, title, html, parentId); create_child_page
\* gives the page id of its URL as the parent.
CreatePage ==
  /\ hpc = "createPage"
  /\ \E r \in Responses :
       /\ wire' = Append(wire, [Sent("createPage", r) EXCEPT
                                  !.spaceKey = spaceKey, !.title = args.title,
                                  !.html = html,
                                  !.parentId =
                                     IF tool = "create_child_page" THEN pageId
                                     ELSE args.parentId])
       /\ IF r.ok
          THEN /\ page' = [id |-> NewPageId, version |-> 1]
               /\ ai' = 1
               /\ hpc' = "uploadAttachment"
               /\ UNCHANGED << inTry, result >>
          ELSE /\ Throw(RequestError(r))
               /\ UNCHANGED << page, ai >>
  /\ UNCHANGED << tool, args, content, spaceKey, pageId, currentPage, newTitle >>
  /\ UNCHANGED << conversion, apart, remote >>

\* One turn of an attachment loop: the update paths upload to pageId, the
\* create paths to page.id.
UploadAttachment ==
  /\ hpc = "uploadAttachment"
  /\ ai <= Len(attachments)
  /\ LET target == IF inTry \/ tool \in {"update_page", "sync_file"}
                   THEN pageId ELSE page.id
     IN  \E r \in UploadResponses(target) :
       /\ wire' = Append(wire, [Sent("uploadAttachment", r) EXCEPT
                                  !.pageId = target,
                                  !.filename = attachments[ai].filename])
       /\ IF r.ok
          THEN /\ ai' = ai + 1
               /\ UNCHANGED << hpc, inTry, result >>
          ELSE /\ Throw(UploadError(r))
               /\ UNCHANGED ai
  /\ UNCHANGED << tool, args, content, spaceKey, pageId, currentPage, newTitle,
                  page >>
  /\ UNCHANGED << conversion, apart, remote >>

\* The attachment loop is over: the handler returns its report.
Finish ==
  /\ hpc = "uploadAttachment"
  /\ ai > Len(attachments)
  /\ result' = [isError |-> FALSE, text |-> page.id]
  /\ hpc' = "returned"
  /\ UNCHANGED << tool, args, content, spaceKey, pageId, inTry, currentPage,
                  newTitle, page, ai, wire >>
  /\ UNCHANGED << conversion, apart, remote >>

\* client.listSpaces (list_spaces) and client.searchPages (search_pages):
\* one request, then the report.
ListSpaces ==
  /\ hpc = "listSpaces"
  /\ \E r \in { Ok } \cup Transient :
       /\ wire' = Append(wire, Sent("listSpaces", r))
       /\ IF r.ok
          THEN /\ result' = [isError |-> FALSE, text |-> "Found spaces"]
               /\ hpc' = "returned"
               /\ UNCHANGED inTry
          ELSE Throw(RequestError(r))
  /\ UNCHANGED << tool, args, content, spaceKey, pageId, currentPage, newTitle,
                  page, ai >>
  /\ UNCHANGED << conversion, apart, remote >>

SearchPages ==
  /\ hpc = "searchPages"
  /\ \E r \in { Ok } \cup Transient :
       /\ wire' = Append(wire, [Sent("searchPages", r) EXCEPT
                                  !.title = args.query])
       /\ IF r.ok
          THEN /\ result' = [isError |-> FALSE, text |-> "Found pages"]
               /\ hpc' = "returned"
               /\ UNCHANGED inTry
          ELSE Throw(RequestError(r))
  /\ UNCHANGED << tool, args, content, spaceKey, pageId, currentPage, newTitle,
                  page, ai >>
  /\ UNCHANGED << conversion, apart, remote >>

ToolNext ==
  \/ ToolCall
  \/ Convert
  \/ ExecMatch
  \/ ExecNull
  \/ FetchOk
  \/ FetchNotOk
  \/ FetchReject
  \/ BodyOk
  \/ BodyReject
  \/ ReplaceStep
  \/ Parse
  \/ Converted
  \/ GetPage
  \/ UpdatePage
  \/ CreatePage
  \/ UploadAttachment
  \/ Finish
  \/ ListSpaces
  \/ SearchPages

\* Confluence has any of the pages, at any of the versions.
InitTool ==
  /\ NotCalled
  /\ NoTool
  /\ remote \in Remotes
  /\ fn = "none"
  /\ arg = <<>>
  /\ res = <<>>

ToolSpec == InitTool /\ [][ToolNext]_vars

\* The handler waits for a conversion or for Confluence.
InProgress ==
  hpc \in { "convert", "getPage", "updatePage", "createPage",
            "uploadAttachment", "listSpaces", "searchPages" }

\* Every remote call responds or fails and code that is ready to run runs:
\* weak fairness of the steps of a call in progress, with their enabling
\* condition written out.
ToolRuns == []<>(~InProgress) \/ []<><<TRUE>>_vars

FairToolSpec == ToolSpec /\ ToolRuns

(* ===================== two tool calls in progress ===================== *)

\* The server starts the handler of a request without waiting for the
\* handler of the request before it (index.ts line 220: an async
\* handler), so a second call runs while the first waits at an await.  The
\* handler's locals and the conversion's locals belong to each call;
\* Confluence, the requests it has seen and marked's renderers are shared.

\* The page both calls update.
RacePage == "123"

\* A document of one diagram.
RaceDoc == << FENCE, LANG, SrcA, NL, FENCE, NL >>

\* update_page of a document with a diagram and sync_file of the notes, to
\* the page RacePage, the title left to Confluence.
RaceCalls ==
  { [tool |-> "update_page",
     args |-> [NoArgs EXCEPT !.content = RaceDoc, !.pageId = RacePage]] }
  \cup
  { c \in UploadCalls :
      /\ c.tool = "sync_file"
      /\ c.args.title = ""
      /\ c.args.file_path = "/docs/notes.md"
      /\ ~parseConfluenceUrl(c.args.page_url).threw
      /\ parseConfluenceUrl(c.args.page_url).pageId = RacePage }

\* The locals of the call that runs.
CallFrame ==
  [self |-> self, conversion |-> Frame, hpc |-> hpc, tool |-> tool,
   args |-> args, content |-> content, spaceKey |-> spaceKey,
   pageId |-> pageId, inTry |-> inTry, currentPage |-> currentPage,
   newTitle |-> newTitle, page |-> page, ai |-> ai, result |-> result]

\* The locals of a call that has not started.
NewCall(id) ==
  [self |-> id,
   conversion |->
     [pc |-> "idle", markdown |-> <<>>, lastIndex |-> 0, match |-> Null,
      mermaidCode |-> "", filename |-> "", attachments |-> <<>>,
      mermaidBlocks |-> <<>>, processedMarkdown |-> <<>>, ri |-> 1,
      html |-> <<>>, requests |-> <<>>, blockLog |-> <<>>, origin |-> <<>>],
   hpc |-> "ready", tool |-> "", args |-> <<>>, content |-> <<>>,
   spaceKey |-> "", pageId |-> "", inTry |-> FALSE, currentPage |-> <<>>,
   newTitle |-> "", page |-> <<>>, ai |-> 1, result |-> <<>>]

\* The call f becomes the one that runs.
RestoreCall(f) ==
  /\ Restore(f.conversion)
  /\ self' = f.self
  /\ hpc' = f.hpc
  /\ tool' = f.tool
  /\ args' = f.args
  /\ content' = f.content
  /\ spaceKey' = f.spaceKey
  /\ pageId' = f.pageId
  /\ inTry' = f.inTry
  /\ currentPage' = f.currentPage
  /\ newTitle' = f.newTitle
  /\ page' = f.page
  /\ ai' = f.ai
  /\ result' = f.result

\* The call that runs waits at an await: for the response of getPage
\* (lines 288, 370), for Kroki inside convertMarkdownToConfluence (lines
\* 292, 374; converter.ts lines 26, 35), for an attachment upload (lines
\* 298-300, 380-382); or it has returned.  An update request is sent and
\* answered in one step.
AtAwait ==
  \/ hpc = "getPage"
  \/ hpc = "convert" /\ pc \in { "fetch", "body" }
  \/ hpc = "uploadAttachment" /\ ai <= Len(attachments)
  \/ hpc = "returned"

\* Node runs the other call: the second request arrives, or the call that
\* waited gets its response.
Switch ==
  /\ AtAwait
  /\ LET other == IF waiting = <<>> THEN NewCall(2) ELSE waiting[1]
     IN  /\ other.hpc # "returned"
         /\ RestoreCall(other)
  /\ waiting' = << CallFrame >>
  /\ UNCHANGED << marked, fn, arg, res, parked, returned, wire, remote >>

RaceCall == ToolCallWith(RaceCalls)

RaceNext ==
  \/ RaceCall
  \/ Convert
  \/ ExecMatch
  \/ ExecNull
  \/ FetchOk
  \/ FetchNotOk
  \/ FetchReject
  \/ BodyOk
  \/ BodyReject
  \/ ReplaceStep
  \/ Parse
  \/ Converted
  \/ GetPage
  \/ UpdatePage
  \/ UploadAttachment
  \/ Finish
  \/ Switch

\* Confluence has the page, at any of the versions.
InitRace ==
  /\ InitTool
  /\ Exists(RacePage)

RaceSpec == InitRace /\ [][RaceNext]_vars

(* ======================= what the claims speak of ===================== *)

Done == pc = "done"

\* The diagram blocks of a document, left to right and not overlapping:
\* an opening fence tagged mermaid up to the next fence after the tag.
RECURSIVE DiagramBlocks(_, _)
DiagramBlocks(doc, from) ==
  LET Opens == { i \in from..Len(doc) :
                   /\ i + 2 <= Len(doc)
                   /\ doc[i] = FENCE /\ doc[i + 1] = LANG
                   /\ \E j \in (i + 2)..Len(doc) : doc[j] = FENCE }
  IN  IF Opens = {} THEN <<>>
      ELSE LET i == Min(Opens)
               j == Min({ c \in (i + 2)..Len(doc) : doc[c] = FENCE })
           IN  << [index |-> i, last |-> j] >> \o DiagramBlocks(doc, j + 1)

TheBlocks == DiagramBlocks(markdown, 1)

InnerOf(b) == SubSeq(markdown, b.index + 2, b.last - 1)

\* The canonical source: the inner text between its first and its last
\* character that is not whitespace.
Canonical(inner) ==
  LET s == Concat(inner)
      n == Len(s)
      Ink(p) == SubSeq(s, p, p) \notin WhiteSpace
  IN  IF \A p \in 1..n : ~Ink(p) THEN ""
      ELSE LET first == CHOOSE p \in 1..n :
                          Ink(p) /\ \A q \in 1..(p - 1) : ~Ink(q)
               \* counted from the right
               back == CHOOSE q \in 1..n :
                         Ink(n + 1 - q) /\ \A r \in 1..(q - 1) : ~Ink(n + 1 - r)
           IN  SubSeq(s, first, n + 1 - back)

HexDigits == {"0", "1", "2", "3", "4", "5", "6", "7", "8", "9",
              "a", "b", "c", "d", "e", "f"}

\* mermaid-<12 hex>.png
IsAttachmentName(name) ==
  /\ Len(name) = 24
  /\ SubSeq(name, 1, 8) = "mermaid-"
  /\ SubSeq(name, 21, 24) = ".png"
  /\ \A p \in 9..20 : SubSeq(name, p, p) \in HexDigits

\* The filenames the markup references as attachment images.
AttachmentRefs(markup) ==
  { n \in 1..(Len(markup) - 1) : markup[n] = ImageAttachmentOpen }

RenderedOk(k) == blockLog[k].outcome = "ok"

RenderFailed(k) == blockLog[k].outcome \in {"status", "neterr", "bodyerr"}

Count(seq, Test(_)) == Cardinality({ n \in 1..Len(seq) : Test(seq[n]) })

\* The tokens of block b still stand, in place and in order, in the
\* rewritten document.
SpanKept(b) ==
  \E p \in 1..Len(origin) :
     /\ p + (b.last - b.index) <= Len(origin)
     /\ \A d \in 0..(b.last - b.index) : origin[p + d] = b.index + d

\* No token of block b is left in the rewritten document.
SpanGone(b) == \A p \in 1..Len(origin) : origin[p] \notin b.index..b.last

\* The document with exactly the spans of the rendered blocks replaced,
\* each by its own image reference, built from position i and block k on.
RECURSIVE Rewritten(_, _)
Rewritten(i, k) ==
  IF k > Len(blockLog) THEN SubSeq(markdown, i, Len(markdown))
  ELSE LET b == blockLog[k]
       IN  SubSeq(markdown, i, b.index - 1)
             \o (IF RenderedOk(k)
                 THEN << Placeholder("mermaid-"
                           \o SubSeq(Md5Hex(Canonical(InnerOf(b))), 1, 12)
                           \o ".png") >>
                 ELSE SubSeq(markdown, b.index, b.last))
             \o Rewritten(b.last + 1, k + 1)

(* ============================== claims ================================ *)

\* C1: when the conversion returns, every attachment-image reference of the
\* markup whose filename has the form mermaid-<12 hex>.png has exactly one
\* entry of that filename in attachments, and every entry of attachments
\* is referenced by the markup.
C1_RefsMatchAttachments ==
  Done =>
    /\ \A n \in AttachmentRefs(html) :
         IsAttachmentName(html[n + 1]) =>
           Count(attachments, LAMBDA a : a.filename = html[n + 1]) = 1
    /\ \A m \in 1..Len(attachments) :
         \E n \in AttachmentRefs(html) : html[n + 1] = attachments[m].filename

\* C2: when the conversion returns, every block whose render failed still
\* stands untouched in the rewritten document, the attachments are those of
\* the rendered blocks only, and every block of the document was processed.
C2_FailedBlockUntouched ==
  Done =>
    /\ \A k \in 1..Len(blockLog) : RenderFailed(k) => SpanKept(blockLog[k])
    /\ Len(attachments) = Count(blockLog, LAMBDA b : b.outcome = "ok")
    /\ Len(blockLog) = Len(TheBlocks)

\* C3: attachments never holds two entries of the same filename.
C3_OneEntryPerFilename ==
  \A m, n \in 1..Len(attachments) :
     attachments[m].filename = attachments[n].filename => m = n

\* C4: when the conversion returns, no block whose render succeeded is left
\* as fenced text in the rewritten document.
C4_RenderedBlockReplaced ==
  Done => \A k \in 1..Len(blockLog) : RenderedOk(k) => SpanGone(blockLog[k])

\* C5: when the conversion returns, the rewritten document is the original
\* with exactly the spans of the rendered blocks replaced by their image
\* references, every other token unchanged and in order.
C5_PositionPreserving ==
  Done => processedMarkdown = Rewritten(1, 1)

\* The filename and the bytes the result owes to block b.
NameOf(b) ==
  "mermaid-" \o SubSeq(Md5Hex(Canonical(InnerOf(b))), 1, 12) \o ".png"

\* C6: the render requests sent so far are those of the first blocks of the
\* document, one each and none twice, identical sources included; once the
\* scan is over every block has had its one request.
C6_OneRequestPerBlock ==
  LET blocks == TheBlocks
  IN  /\ Len(requests) <= Len(blocks)
      /\ \A n \in 1..Len(requests) :
           n <= Len(blocks) => requests[n].block = blocks[n].index
      /\ pc \in {"replace", "done"} => Len(requests) = Len(blocks)

C6_Witness ==
  /\ Done
  /\ \E m, n \in 1..Len(requests) :
       /\ m < n
       /\ requests[m].body = requests[n].body
       /\ RenderFailed(m)

\* C7: the render requests are sent in document order, and attachments
\* lists the rendered blocks, and only them, in document order.
C7_DocumentOrder ==
  /\ \A m, n \in 1..Len(requests) :
       m < n => requests[m].block < requests[n].block
  /\ LET blocks == TheBlocks
     IN  \A k \in 1..Len(blockLog) :
            k <= Len(blocks) => blockLog[k].index = blocks[k].index
  /\ LET ok == SelectSeq(blockLog, LAMBDA b : b.outcome = "ok")
     IN  /\ Len(attachments) = Len(ok)
         /\ \A n \in 1..Len(attachments) :
              n <= Len(ok) =>
                /\ attachments[n].filename = NameOf(ok[n])
                /\ attachments[n].data = Png(Canonical(InnerOf(ok[n])))

C7_Witness ==
  /\ Done
  /\ Len(attachments) >= 2
  /\ attachments[1].filename # attachments[2].filename
  /\ \E k \in 1..Len(blockLog) : RenderFailed(k)

\* C8: whatever the render calls answer, a conversion that was called ends
\* by returning its result; no render failure leaves it as an exception.
C8_Terminates == (pc # "idle") ~> (pc = "done")

C8_Witness ==
  /\ Done
  /\ \E k \in 1..Len(blockLog) : blockLog[k].outcome = "status"
  /\ \E k \in 1..Len(blockLog) : blockLog[k].outcome = "neterr"
  /\ \E k \in 1..Len(blockLog) : blockLog[k].outcome = "bodyerr"

\* C9: for a document without a diagram block no render request is sent,
\* the rewritten document is the document, and attachments is empty.
C9_NoBlockNoWork ==
  (pc # "idle" /\ TheBlocks = <<>>) =>
    /\ requests = <<>>
    /\ attachments = <<>>
    /\ processedMarkdown = markdown

C9_Witness ==
  /\ Done
  /\ TheBlocks = <<>>
  /\ \E n \in 1..Len(markdown) : markdown[n] = FENCE
  /\ \E n \in 1..Len(markdown) : markdown[n] = IMG

\* C10: the filename of every block is mermaid-<first 12 hex characters of
\* the digest of its canonical source>.png, blocks of the same canonical
\* source have the same filename, and the text sent to the render service
\* is the canonical source.
C10_FilenameOfCanonicalSource ==
  /\ \A k \in 1..Len(blockLog) :
       LET src == Canonical(InnerOf(blockLog[k]))
       IN  /\ IsAttachmentName(blockLog[k].filename)
           /\ SubSeq(blockLog[k].filename, 9, 20) = SubSeq(Md5Hex(src), 1, 12)
           /\ k <= Len(requests) /\ requests[k].body = src
  /\ LET Named == { << Canonical(InnerOf(blockLog[k])), blockLog[k].filename >> :
                     k \in 1..Len(blockLog) }
     IN  \A p, q \in Named : p[1] = q[1] => p[2] = q[2]

C10_Witness ==
  \E k, l \in 1..Len(blockLog) :
     /\ InnerOf(blockLog[k]) # InnerOf(blockLog[l])
     /\ Canonical(InnerOf(blockLog[k])) = Canonical(InnerOf(blockLog[l]))
     /\ blockLog[k].filename = blockLog[l].filename

\* C11: renderer.image answers the attachment-image construct with the
\* filename exactly for the targets of the form mermaid-<12 hex>.png, the
\* names the extractor emits, and the external-image construct with the
\* literal target for every other target.
C11_AttachmentExactlyForExtractorNames ==
  fn = "image" =>
    IF IsAttachmentName(arg)
    THEN res = << ImageAttachmentOpen, arg, ImageClose >>
    ELSE res = << ImageUrlOpen, arg, ImageClose >>

\* What a reader of the markup takes as the raw body: the text from the
\* first CDATA opening up to the first CDATA end after it.
RawBody(markup) ==
  LET text == Concat(markup)
      open == Find(text, "<![CDATA[", 1) + 9
      close == Find(text, "]]>", open)
  IN  SubSeq(text, open, close - 1)

\* What follows the raw body.
AfterRawBody(markup) ==
  LET text == Concat(markup)
      open == Find(text, "<![CDATA[", 1) + 9
      close == Find(text, "]]>", open)
  IN  SubSeq(text, close + 3, Len(text))

\* The value of the macro parameter name, as the markup gives it.
Parameter(markup, name) ==
  LET text == Concat(markup)
      tag == "<ac:parameter ac:name=\"" \o name \o "\">"
      open == Find(text, tag, 1) + Len(tag)
      close == Find(text, "</ac:parameter>", open)
  IN  SubSeq(text, open, close - 1)

\* C12: renderer.code serializes a code block as a code macro whose
\* language parameter is the tag, or text for no tag, whose collapse
\* parameter is false and whose raw body reads back as the code text, the
\* macro closing right after it.
C12_CodeMacroVerbatim ==
  fn = "code" =>
    /\ res[1] = "<ac:structured-macro ac:name=\"code\">"
    /\ Parameter(res, "language") =
         (IF arg.language = "" THEN "text" ELSE arg.language)
    /\ Parameter(res, "collapse") = "false"
    /\ RawBody(res) = arg.code
    /\ Trim(AfterRawBody(res)) =
         "</ac:plain-text-body>\n    </ac:structured-macro>"

\* C13: the cleanup leaves the raw code body of a serialized code block as
\* it was.
C13_CleanupKeepsCodeBody ==
  fn = "cleaned" =>
    \E n \in 1..(Len(res) - 1) : res[n] = "<![CDATA[" /\ res[n + 1] = arg.code

\* C14: removeFrontMatter applied to its own result returns that result.
C14_RemoveFrontMatterIdempotent ==
  (fn = "removeFrontMatter" /\ Len(res) = 2) => res[2] = res[1]

\* The document without its leading block: the first line is three hyphens,
\* a later line is three hyphens (the first such line closes the block, be
\* it the last line without a newline), and what follows that line is left;
\* a document without such a block is left as it is.
WithoutLeadingBlock(md) ==
  IF ~StartsWith(md, "---\n") THEN md
  ELSE LET Closes == { c \in 4..(Len(md) - 3) :
                         /\ SubSeq(md, c, c + 3) = "\n---"
                         /\ (c + 3 = Len(md) \/ SubSeq(md, c + 4, c + 4) = "\n") }
       IN  IF Closes = {} THEN md
           ELSE SubSeq(md, Min(Closes) + 5, Len(md))

\* C15: removeFrontMatter returns the document without its leading
\* three-hyphen block, both delimiter lines included, and every document
\* without such a block unchanged.
C15_RemovesLeadingBlock ==
  (fn = "removeFrontMatter" /\ Len(res) >= 1) => res[1] = WithoutLeadingBlock(arg)

\* The places where the lines of a document start.
LineStarts(md) ==
  { p \in 1..Len(md) : p = 1 \/ SubSeq(md, p - 1, p - 1) = "\n" }

\* The line that starts at p, without its newline.
LineAt(md, p) == RunFrom(md, p, {"\n"})

\* Where the line that closes the leading front-matter block starts: the
\* first line is three hyphens and this is the next such line; 0 for none.
BlockClose(md) ==
  LET Closes == { p \in LineStarts(md) : p > 1 /\ LineAt(md, p) = "---" }
  IN  IF 1 \in LineStarts(md) /\ LineAt(md, 1) = "---" /\ Closes # {}
      THEN Min(Closes) ELSE 0

\* The lines of the leading block that are a title: field.
TitleFields(md) ==
  { p \in LineStarts(md) :
      p > 1 /\ p < BlockClose(md) /\ StartsWith(LineAt(md, p), "title:") }

\* A value without the quotes around it.
Unquoted(v) ==
  IF /\ Len(v) >= 2
     /\ SubSeq(v, 1, 1) \in Quotes
     /\ SubSeq(v, Len(v), Len(v)) = SubSeq(v, 1, 1)
  THEN SubSeq(v, 2, Len(v) - 1) ELSE v

FieldValue(md, p) ==
  LET line == LineAt(md, p)
  IN  Unquoted(Trim(SubSeq(line, 7, Len(line))))

\* The lines that are a top-level heading: one #, blanks, a text.
Headings(md) ==
  { p \in LineStarts(md) :
      LET line == LineAt(md, p)
      IN  /\ Len(line) >= 3
          /\ SubSeq(line, 1, 1) = "#"
          /\ SubSeq(line, 2, 2) \in {" ", "\t"}
          /\ Trim(SubSeq(line, 3, Len(line))) # "" }

HeadingOrFallback(md, fallback) ==
  IF Headings(md) # {}
  THEN LET line == LineAt(md, Min(Headings(md)))
       IN  Trim(SubSeq(line, 3, Len(line)))
  ELSE fallback

\* C16: extractTitle returns the value of the title: field of the leading
\* front-matter block, its quotes stripped, when the block has one, also
\* when the document has a heading; otherwise the text of the first
\* top-level heading; with neither, the fallback.
C16_TitlePrecedence ==
  fn = "extractTitle" =>
    res = IF TitleFields(arg.markdown) # {}
          THEN FieldValue(arg.markdown, Min(TitleFields(arg.markdown)))
          ELSE HeadingOrFallback(arg.markdown, arg.fallback)

\* C17: for a document whose leading front-matter block has no title:
\* field (the text title: stands after the closing line, or the leading
\* line is never closed, or the text is part of another key), extractTitle
\* returns the first top-level heading or the fallback.
C17_TitleOnlyFromLeadingBlock ==
  (fn = "extractTitle" /\ TitleFields(arg.markdown) = {}) =>
    res = HeadingOrFallback(arg.markdown, arg.fallback)

IsWrite(e) == e.op \in {"createPage", "updatePage"}

IsUpload(e) == e.op = "uploadAttachment"

\* C19: a page request succeeded before every attachment upload and no
\* page request follows an upload; the uploads are the attachments of the
\* conversion result in their order, each one after the one before it
\* succeeded; no render request is sent after a page request.
C19_PageThenAttachmentsInOrder ==
  LET Uploads == SelectSeq(wire, IsUpload)
  IN  /\ \A n \in 1..Len(wire) :
           IsUpload(wire[n]) =>
             /\ \E m \in 1..(n - 1) : IsWrite(wire[m]) /\ wire[m].ok
             /\ \A m \in (n + 1)..Len(wire) : ~IsWrite(wire[m])
      /\ Len(Uploads) <= Len(attachments)
      /\ \A k \in 1..Len(Uploads) :
           /\ Uploads[k].filename = attachments[k].filename
           /\ k < Len(Uploads) => Uploads[k].ok
      /\ \A n \in 1..Len(wire) :
           IsWrite(wire[n]) => wire[n].renders = Len(requests)

\* The lines inside the leading front-matter block of a document: the
\* lines between a first line of three hyphens and the next such line.
FrontMatterLines(doc) ==
  LET Closers == { j \in 3..Len(doc) :
                     /\ doc[j] = RULE /\ doc[j - 1] = NL
                     /\ (j = Len(doc) \/ doc[j + 1] = NL) }
  IN  IF Len(doc) >= 2 /\ doc[1] = RULE /\ doc[2] = NL /\ Closers # {}
      THEN { doc[i] : i \in { i \in 3..(Min(Closers) - 1) : doc[i] # NL } }
      ELSE {}

\* C20: the markup of a page request holds no line of the leading
\* front-matter block of the content the tool was given.
C20_FrontMatterNotSent ==
  \A n \in 1..Len(wire) :
    IsWrite(wire[n]) =>
      \A i \in 1..Len(wire[n].html) :
        wire[n].html[i] \notin FrontMatterLines(content)

\* C21: upload_page given a URL with the id of a page that is there issues
\* no create-page request.
C21_ExistingPageUpdatedNotCreated ==
  (tool = "upload_page" /\ pageId # "" /\ Exists(pageId)) =>
    \A n \in 1..Len(wire) : wire[n].op # "createPage"

\* C22: in an upload_page call, no create-page request is issued after an
\* update request for the URL's page succeeded.
C22_NoCreateAfterUpdate ==
  tool = "upload_page" =>
    \A m \in 1..Len(wire) : \A n \in 1..Len(wire) :
      ~(/\ wire[m].op = "updatePage" /\ wire[m].ok /\ wire[m].pageId = pageId
        /\ wire[n].op = "createPage")

C24_ErrorMeansNothingWritten ==
  (hpc = "returned" /\ result.isError) =>
    \A n \in 1..Len(wire) : ~(IsWrite(wire[n]) /\ wire[n].ok)

\* The URL names a page: /pages/ and digits, or /pages/edit-v2/ and digits.
HasPageId(url) ==
  \E pat \in { "/pages/", "/pages/edit-v2/" } :
    \E p \in Places(url, pat) :
      /\ p + Len(pat) <= Len(url)
      /\ SubSeq(url, p + Len(pat), p + Len(pat)) \in Digits

\* The URL names a space: /spaces/ and a key.
HasSpaceKey(url) ==
  \E p \in Places(url, "/spaces/") :
    /\ p + 8 <= Len(url)
    /\ SubSeq(url, p + 8, p + 8) # "/"

\* The call the handler serves fails validation: sync_file with a path that
\* does not exist or with a page URL of no page id, create_child_page with
\* a parent URL of no page id, a tool given a URL of no space (a URL being
\* an argument that starts with http; anything else is read as a space
\* key).
FailsValidation ==
  LET url == UrlOf([tool |-> tool, args |-> args])
  IN  /\ tool \in {"upload_page", "sync_file", "create_child_page"}
      /\ args.invalid = {}
      /\ \/ tool = "sync_file" /\ ~existsSync(args.file_path)
         \/ tool \in {"sync_file", "create_child_page"} /\ ~HasPageId(url)
         \/ StartsWith(url, "http") /\ ~HasSpaceKey(url)

\* C25: a call that fails validation returns an error result and issues no
\* request, neither to Confluence nor to the render service.
C25_ValidationBeforeNetwork ==
  (hpc # "ready" /\ FailsValidation) =>
    /\ hpc = "returned"
    /\ result.isError
    /\ wire = <<>>
    /\ requests = <<>>

\* C25 witness: sync_file on a file that exists, with the URL of a space
\* that names no page, has returned.
C25_Witness ==
  /\ hpc = "returned"
  /\ tool = "sync_file"
  /\ existsSync(args.file_path)
  /\ HasSpaceKey(args.page_url)
  /\ ~HasPageId(args.page_url)
  /\ result.isError
  /\ wire = <<>>

\* C26: every update request follows a getPage of the same page that
\* succeeded, and carries the version the latest such getPage returned
\* plus one and the caller's title or, with none given, the title getPage
\* returned.
C26_UpdateCarriesNextVersion ==
  \A n \in 1..Len(wire) :
    wire[n].op = "updatePage" =>
      LET Gets == { m \in 1..(n - 1) :
                      /\ wire[m].op = "getPage" /\ wire[m].ok
                      /\ wire[m].pageId = wire[n].pageId }
      IN  /\ Gets # {}
          /\ wire[n].version = wire[Max(Gets)].version + 1
          /\ wire[n].title = IF args.title # "" THEN args.title
                             ELSE wire[Max(Gets)].title

\* C26 witness: an update request was sent for a page at version 4 by a
\* caller that gave no title.
C26_Witness ==
  \E n \in 1..Len(wire) :
    /\ wire[n].op = "updatePage"
    /\ wire[n].version = 5
    /\ args.title = ""
    /\ wire[n].ok

\* The update requests and the calls that sent them.
Updates == { n \in 1..Len(wire) : wire[n].op = "updatePage" }

\* C27: two update calls of the same page never submit the version an
\* update of the other call has already made the page's, and the version
\* an update request carries is one more than the version the page has
\* when the request is sent.
C27_UpdatesNeverShareAVersion ==
  /\ [](\A m, n \in Updates :
          /\ m < n
          /\ wire[m].call # wire[n].call
          /\ wire[m].pageId = wire[n].pageId
          /\ wire[m].ok
          => wire[m].version # wire[n].version)
  /\ [][(Len(wire') = Len(wire) + 1 /\ wire'[Len(wire')].op = "updatePage")
          => wire'[Len(wire')].version
               = remote[wire'[Len(wire')].pageId] + 1]_vars

=============================================================================
